---- MODULE Spec2Model ----
\* Model of src/client/client.py: SWEGymClient (constructor, check_connection,
\* execute_tool with its bounded fixed-delay retry loop) and the command-line
\* entry point main().
EXTENDS Integers, Sequences, FiniteSets, TLC

VARIABLES
    mode,       \* "lib": the class is used by a caller; "cli": main() runs
    pc,         \* position of the caller / of main() / inside execute_tool
    json_err_is_request_exception,
                \* the installed requests: TRUE when response.json() raises
                \* requests.JSONDecodeError (a RequestException, >= 2.27),
                \* FALSE when it raises a plain ValueError
    clock,      \* time.time(), in ticks of 1/TicksPerSec second
    self,       \* the client's attributes: <<>> before __init__, then <<rec>>
    probe,      \* the check_connection run by __init__: <<>> or <<rec>>
    health,     \* the caller's last check_connection since the last execute_tool:
                \* <<>> or <<[requests, outcome, raised, ret]>>
    call,       \* arguments of the running execute_tool: <<>> or <<rec>>
    payload,    \* the payload built by the running execute_tool: <<>> or <<rec>>
    attempt,    \* loop index of execute_tool
    posts,      \* POST requests sent by the running execute_tool
    attempts,   \* outcome of each of those POSTs
    sleeps,     \* time.sleep durations of the running execute_tool
    result,     \* how execute_tool ended (pc = "done"); in main(), its result afterwards
    n_calls,    \* execute_tool calls started so far
    convLog,    \* the conversation ids generated so far, each with its time.time()
    cli,        \* main(): the parsed command line, <<>> or <<rec>>
    stdout,     \* what main() printed
    log,        \* main()'s own logger.error lines
    entry,      \* the convenience method running, with its arguments: <<>> or <<rec>>
    pc2, call2, payload2, attempt2, posts2, attempts2, sleeps2, result2
                \* a second thread's execute_tool on the same client: its
                \* position and its own locals

vars == <<mode, pc, json_err_is_request_exception, clock, self, probe, health,
          call, payload, attempt, posts, attempts, sleeps, result, n_calls,
          convLog, cli, stdout, log, entry,
          pc2, call2, payload2, attempt2, posts2, attempts2, sleeps2, result2>>

\* the locals of the second thread
thread2 == <<pc2, call2, payload2, attempt2, posts2, attempts2, sleeps2, result2>>

----------------------------------------------------------------------------
\* Bounds of the model
MaxRetries == 3      \* largest max_retries given to the constructor
MaxCalls == 2        \* execute_tool calls per run
MaxClock == 20       \* latest time at which the caller starts an execute_tool
TicksPerSec == 2     \* resolution of the modelled clock

StartClock == 18     \* time.time() when the run starts, in ticks

\* Program constants
HTTP_OK == 200
DefaultTimeout == 60
DefaultMaxRetries == 3
DefaultRetryDelay == 2

----------------------------------------------------------------------------
\* Values

None == <<>>
Some(x) == <<x>>
IsNone(o) == o = <<>>
Val(o) == o[1]

\* Strings the code inspects character by character are sequences of characters.
Slash == "/"
ServerUrlArgs == { <<"h">>, <<"h", "/", "/">> }
ApiKeys == { "k" }
RetryDelays == { DefaultRetryDelay }
RetryValues == (-1) .. MaxRetries

Tools == { "execute_bash" }
Parameters == { [command |-> "ls"] }
InstanceIdArgs == { None, Some(""), Some("django.14520") }
ConversationIdArgs == { None, Some(<<>>), Some(<<"c", "7">>) }

\* str.rstrip('/')
RECURSIVE Rstrip(_)
Rstrip(s) ==
    IF s # <<>> /\ s[Len(s)] = Slash THEN Rstrip(SubSeq(s, 1, Len(s) - 1)) ELSE s

\* str(n) for an int n >= 0, as a sequence of digit characters
DigitChar(d) ==
    CASE d = 0 -> "0" [] d = 1 -> "1" [] d = 2 -> "2" [] d = 3 -> "3" [] d = 4 -> "4"
      [] d = 5 -> "5" [] d = 6 -> "6" [] d = 7 -> "7" [] d = 8 -> "8" [] d = 9 -> "9"

RECURSIVE IntToStr(_)
IntToStr(n) ==
    IF n < 10 THEN <<DigitChar(n)>> ELSE IntToStr(n \div 10) \o <<DigitChar(n % 10)>>

\* Mutant of TimeSeconds: round(time.time()) in place of int(time.time())
TimeSeconds_Rounded(now) == (2 * now + TicksPerSec) \div (2 * TicksPerSec)

\* int(time.time()): whole seconds
TimeSeconds(now) == now \div TicksPerSec

\* f"conv-{int(time.time())}"
GeneratedConversationId(now) == <<"c", "o", "n", "v", "-">> \o IntToStr(TimeSeconds(now))

\* bool(x) for an Optional[str]
Truthy(o) == ~IsNone(o) /\ Val(o) # ""

\* json.loads / response.json() on the texts the model uses: <<>> when the text
\* is not JSON, <<value>> otherwise
JsonDecode(text) ==
    CASE text = "{\"command\": \"ls\"}" -> Some([command |-> "ls"])
      [] text = "{\"output\": \"a\"}" -> Some([output |-> "a"])
      [] OTHER -> None

ParamStrings == { "{\"command\": \"ls\"}", "{bad" }

\* What the server (or the network) answers to one request
Response(status, text) == [kind |-> "response", status |-> status, text |-> text]
NetError(msg) == [kind |-> "error", status |-> 0, text |-> msg]
PostOutcomes ==
    { Response(HTTP_OK, "{\"output\": \"a\"}"), Response(HTTP_OK, "<html>"),
      Response(404, "nf"), Response(500, "boom"),
      NetError("timeout") }
GetOutcomes == { Response(HTTP_OK, "ok"), Response(503, "down"), NetError("refused") }

----------------------------------------------------------------------------
\* Exceptions

\* Classes of the errors requests.get / requests.post raise at network level
NetErrorClass(msg) == IF msg = "timeout" THEN "Timeout" ELSE "ConnectionError"

\* Class of the error response.json() raises on a body that is not JSON
JsonErrorClass ==
    IF json_err_is_request_exception THEN "requests.JSONDecodeError" ELSE "ValueError"

\* `except requests.RequestException`: the classes the clause catches
IsRequestException(cls) ==
    cls \in { "RequestException", "Timeout", "ConnectionError", "requests.JSONDecodeError" }

\* Mutant of FailureMessage: the detail of the first failed attempt is kept
FailureMessage_FirstDetail(max_retries, detail) ==
    <<"Failed to execute tool after ">> \o IntToStr(max_retries)
        \o <<" attempts: ", IF attempts = <<>> THEN detail ELSE attempts[1].text>>

\* f"Failed to execute tool after {self.max_retries} attempts: {detail}"
FailureMessage(max_retries, detail) ==
    <<"Failed to execute tool after ">> \o IntToStr(max_retries)
        \o <<" attempts: ", detail>>

NoResult == [kind |-> "none", value |-> None, error |-> None]
Returned(v) == [kind |-> "returned", value |-> v, error |-> None]
Raised(cls, msg) == [kind |-> "raised", value |-> None, error |-> Some([class |-> cls, msg |-> msg])]

----------------------------------------------------------------------------
\* SWEGymClient.__init__ and check_connection

Headers(api_key) ==
    [h \in {"Authorization", "Content-Type"} |->
        IF h = "Authorization" THEN <<"Bearer ", api_key>> ELSE <<"application/json">>]

NewClient(server_url, api_key, timeout, max_retries, retry_delay) ==
    [server_url |-> Rstrip(server_url), api_key |-> api_key, timeout |-> timeout,
     max_retries |-> max_retries, retry_delay |-> retry_delay,
     headers |-> Headers(api_key)]

HealthRequest(c) ==
    [method |-> "GET", url |-> c.server_url \o <<"/api/health">>,
     headers |-> c.headers, timeout |-> c.timeout]

\* Mutant of CheckConnectionReturn: any response counts as a live server
CheckConnectionReturn_AnyResponse(outcome) == outcome.kind = "response"

\* the value check_connection returns for what the GET produced
CheckConnectionReturn(outcome) ==
    IF outcome.kind = "response"
    THEN outcome.status = HTTP_OK
    ELSE FALSE

\* whether check_connection lets the GET's exception out
CheckConnectionRaises(outcome) ==
    outcome.kind = "error" /\ ~IsRequestException(NetErrorClass(outcome.text))

\* one run of check_connection on client c: the requests it sent, what came
\* back, and how it ended
RunCheckConnection(c, outcome) ==
    [requests |-> <<HealthRequest(c)>>, outcome |-> outcome,
     raised |-> CheckConnectionRaises(outcome),
     ret |-> CheckConnectionReturn(outcome)]

Construct ==
    /\ mode = "lib" /\ pc = "new"
    /\ \E server_url \in ServerUrlArgs, api_key \in ApiKeys,
          max_retries \in RetryValues, retry_delay \in RetryDelays,
          outcome \in GetOutcomes :
          LET c == NewClient(server_url, api_key, DefaultTimeout, max_retries, retry_delay)
          IN  /\ self' = Some(c)
              /\ probe' = Some(RunCheckConnection(c, outcome))
              /\ pc' = IF CheckConnectionRaises(outcome) THEN "crashed" ELSE "idle"
    /\ UNCHANGED <<mode, json_err_is_request_exception, clock, health, call, payload,
                   attempt, posts, attempts, sleeps, result, n_calls, convLog, cli,
                   stdout, log>>
    /\ UNCHANGED <<entry, thread2>>

CheckConnection ==
    /\ mode = "lib" /\ pc = "idle"
    /\ \E outcome \in GetOutcomes :
          /\ health' = Some(RunCheckConnection(Val(self), outcome))
          /\ pc' = IF CheckConnectionRaises(outcome) THEN "crashed" ELSE "idle"
    /\ UNCHANGED <<mode, json_err_is_request_exception, clock, self, probe, call,
                   payload, attempt, posts, attempts, sleeps, result, n_calls, convLog,
                   cli, stdout, log>>
    /\ UNCHANGED <<entry, thread2>>

----------------------------------------------------------------------------
\* SWEGymClient.execute_tool

\* the conversation id the payload carries
ConversationId(conversation_id, now) ==
    IF IsNone(conversation_id) THEN GeneratedConversationId(now) ELSE Val(conversation_id)

\* whether `if instance_id:` adds the key to the payload
IncludesInstanceId(instance_id) == Truthy(instance_id)

BuildPayload(tool, parameters, instance_id, conversation_id, now) ==
    IF IncludesInstanceId(instance_id)
    THEN [tool |-> tool, parameters |-> parameters,
          conversation_id |-> ConversationId(conversation_id, now),
          instance_id |-> Val(instance_id)]
    ELSE [tool |-> tool, parameters |-> parameters,
          conversation_id |-> ConversationId(conversation_id, now)]

\* Mutant of ExecuteRequest: the payload is rebuilt on every attempt, a
\* conversation id that was not given being generated again
ExecuteRequest_RebuiltPerAttempt(c, p) ==
    [method |-> "POST", url |-> c.server_url \o <<"/api/v1/execute">>,
     headers |-> c.headers,
     json |-> IF IsNone(Val(call).conversation_id)
              THEN [p EXCEPT !.conversation_id = GeneratedConversationId(clock)]
              ELSE p,
     timeout |-> c.timeout]

\* lines 111-116: the POST of one attempt
ExecuteRequest(c, p) ==
    [method |-> "POST", url |-> c.server_url \o <<"/api/v1/execute">>,
     headers |-> c.headers, json |-> p, timeout |-> c.timeout]

\* Mutant of InRange: no attempt is made unless the constructor's probe succeeded
InRange_WhenProbed(i, max_retries) == Val(probe).ret /\ 0 <= i /\ i < max_retries

\* `for attempt in range(self.max_retries)`: whether index i is in the range
InRange(i, max_retries) == 0 <= i /\ i < max_retries

\* Mutant of HasAttemptLeft: off by one, `attempt < self.max_retries`
HasAttemptLeft_OffByOne(i, max_retries) == i < max_retries

\* `attempt < self.max_retries - 1`
HasAttemptLeft(i, max_retries) == i < max_retries - 1

\* Mutant of IsSuccess: the status test inverted, `response.status_code != 200`
IsSuccess_Inverted(outcome) == outcome.kind = "response" /\ outcome.status # HTTP_OK

\* `response.status_code == 200`
IsSuccess(outcome) == outcome.kind = "response" /\ outcome.status = HTTP_OK

\* execute_tool ends with result r (a return or a raise)
Finish(r) ==
    /\ result' = r
    /\ pc' = "done"

\* the top of the for loop with index i: the next POST, or the loop is
\* exhausted and the function returns None by falling off its end
LoopTop(i) ==
    /\ attempt' = i
    /\ IF InRange(i, Val(self).max_retries)
       THEN /\ pc' = "post"
            /\ result' = NoResult
       ELSE Finish(Returned(None))

\* entry of execute_tool up to the first POST
EnterExecuteTool(tool, parameters, instance_id, conversation_id) ==
    LET p == BuildPayload(tool, parameters, instance_id, conversation_id, clock)
    IN  /\ call' = Some([tool |-> tool, parameters |-> parameters,
                         instance_id |-> instance_id,
                         conversation_id |-> conversation_id, at |-> clock])
        /\ payload' = Some(p)
        /\ convLog' = IF IsNone(conversation_id)
                      THEN Append(convLog, [at |-> clock, id |-> p.conversation_id])
                      ELSE convLog
        /\ n_calls' = n_calls + 1
        /\ health' = None
        /\ posts' = <<>>
        /\ attempts' = <<>>
        /\ sleeps' = <<>>
        /\ LoopTop(0)

ExecuteTool ==
    /\ mode = "lib" /\ pc = "idle"
    /\ n_calls < MaxCalls /\ clock <= MaxClock
    /\ \E tool \in Tools, parameters \in Parameters,
          instance_id \in InstanceIdArgs, conversation_id \in ConversationIdArgs :
          EnterExecuteTool(tool, parameters, instance_id, conversation_id)
    /\ UNCHANGED <<mode, json_err_is_request_exception, clock, self, probe, cli,
                   stdout, log>>
    /\ UNCHANGED <<entry, thread2>>

\* Mutant of AttemptFailed: a 4xx answer is not retried
AttemptFailed_ClientErrorFinal(detail) ==
    IF /\ HasAttemptLeft(attempt, Val(self).max_retries)
       /\ attempts'[Len(attempts')].status \notin 400 .. 499
    THEN /\ pc' = "sleep"
         /\ result' = NoResult
    ELSE Finish(Raised("Exception", FailureMessage(Val(self).max_retries, detail)))

\* lines 129-134 and 121-126: the attempt failed with this detail
AttemptFailed(detail) ==
    IF HasAttemptLeft(attempt, Val(self).max_retries)
    THEN /\ pc' = "sleep"
         /\ result' = NoResult
    ELSE Finish(Raised("Exception", FailureMessage(Val(self).max_retries, detail)))

\* an exception of class cls and text msg raised inside the try block
RaisedInTry(cls, msg) ==
    IF IsRequestException(cls)
    THEN AttemptFailed(msg)
    ELSE Finish(Raised(cls, <<msg>>))

\* one pass of the loop body: the POST and what follows from its outcome
Post ==
    /\ pc = "post"
    /\ \E outcome \in PostOutcomes :
          /\ posts' = Append(posts, ExecuteRequest(Val(self), Val(payload)))
          /\ attempts' = Append(attempts, outcome)
          /\ IF outcome.kind = "error"
             THEN RaisedInTry(NetErrorClass(outcome.text), outcome.text)
             ELSE IF IsSuccess(outcome)
             THEN IF IsNone(JsonDecode(outcome.text))
                  THEN RaisedInTry(JsonErrorClass, "Expecting value")
                  ELSE Finish(Returned(JsonDecode(outcome.text)))
             ELSE AttemptFailed(outcome.text)
    /\ UNCHANGED <<mode, json_err_is_request_exception, clock, self, probe, health,
                   call, payload, attempt, sleeps, n_calls, convLog, cli, stdout, log>>
    /\ UNCHANGED <<entry, thread2>>

\* Mutant of Sleep: exponential backoff that doubles the delay kept on the client
Sleep_Backoff ==
    /\ pc = "sleep"
    /\ sleeps' = Append(sleeps, Val(self).retry_delay)
    /\ clock' = clock + Val(self).retry_delay * TicksPerSec
    /\ self' = Some([Val(self) EXCEPT !.retry_delay = 2 * @])
    /\ LoopTop(attempt + 1)
    /\ UNCHANGED <<mode, json_err_is_request_exception, probe, health, call,
                   payload, posts, attempts, n_calls, convLog, cli, stdout, log>>
    /\ UNCHANGED <<entry, thread2>>

\* time.sleep(self.retry_delay), then the next pass of the loop
Sleep ==
    /\ pc = "sleep"
    /\ sleeps' = Append(sleeps, Val(self).retry_delay)
    /\ clock' = clock + Val(self).retry_delay * TicksPerSec
    /\ LoopTop(attempt + 1)
    /\ UNCHANGED <<mode, json_err_is_request_exception, self, probe, health, call,
                   payload, posts, attempts, n_calls, convLog, cli, stdout, log>>
    /\ UNCHANGED <<entry, thread2>>

\* where control goes when execute_tool has ended with result r: back to the
\* library's caller, or in main() to the print or out of main() with the error
AfterCall(r) ==
    IF mode = "lib" THEN "idle"
    ELSE IF r.kind = "returned" THEN "main_print" ELSE "crashed"

\* execute_tool's frame is left: its locals are gone, the caller has the result
Return ==
    /\ pc = "done"
    /\ pc' = AfterCall(result)
    /\ result' = IF mode = "lib" THEN NoResult ELSE result
    /\ call' = None
    /\ payload' = None
    /\ attempt' = 0
    /\ posts' = <<>>
    /\ attempts' = <<>>
    /\ sleeps' = <<>>
    /\ UNCHANGED <<mode, json_err_is_request_exception, clock, self, probe, health,
                   n_calls, convLog, cli, stdout, log>>
    /\ entry' = None
    /\ UNCHANGED thread2

\* time passes between two operations of the caller
Tick ==
    /\ pc = "idle" /\ clock < MaxClock
    /\ clock' = clock + 1
    /\ UNCHANGED <<mode, pc, json_err_is_request_exception, self, probe, health, call,
                   payload, attempt, posts, attempts, sleeps, result, n_calls,
                   convLog, cli, stdout, log>>
    /\ UNCHANGED <<entry, thread2>>

----------------------------------------------------------------------------
\* main()

\* parse_args and SWEGymClient(args.server, args.key)
MainConstruct ==
    /\ mode = "cli" /\ pc = "main"
    /\ \E server \in ServerUrlArgs, key \in ApiKeys, tool \in Tools,
          params \in ParamStrings, instance \in InstanceIdArgs,
          outcome \in GetOutcomes :
          LET c == NewClient(server, key, DefaultTimeout, DefaultMaxRetries,
                             DefaultRetryDelay)
          IN  /\ cli' = Some([server |-> server, key |-> key, tool |-> tool,
                              params |-> params, instance |-> instance])
              /\ self' = Some(c)
              /\ probe' = Some(RunCheckConnection(c, outcome))
              /\ pc' = IF CheckConnectionRaises(outcome) THEN "crashed" ELSE "main_parse"
    /\ UNCHANGED <<mode, json_err_is_request_exception, clock, health, call, payload,
                   attempt, posts, attempts, sleeps, result, n_calls, convLog, stdout,
                   log>>
    /\ UNCHANGED <<entry, thread2>>

\* json.loads(args.params): abort on invalid JSON, else enter execute_tool
MainParse ==
    /\ mode = "cli" /\ pc = "main_parse"
    /\ LET params == JsonDecode(Val(cli).params)
       IN  IF IsNone(params)
           THEN /\ log' = Append(log, "Invalid JSON in params argument")
                /\ pc' = "exit"
                /\ UNCHANGED <<health, call, payload, attempt, posts, attempts,
                               sleeps, result, n_calls, convLog>>
           ELSE /\ EnterExecuteTool(Val(cli).tool, Val(params), Val(cli).instance, None)
                /\ UNCHANGED log
    /\ UNCHANGED <<mode, json_err_is_request_exception, clock, self, probe, cli,
                   stdout>>
    /\ UNCHANGED <<entry, thread2>>

\* print(json.dumps(result, indent=2))
MainPrint ==
    /\ mode = "cli" /\ pc = "main_print"
    /\ stdout' = Append(stdout, result.value)
    /\ pc' = "exit"
    /\ UNCHANGED <<mode, json_err_is_request_exception, clock, self, probe, health,
                   call, payload, attempt, posts, attempts, sleeps, result, n_calls,
                   convLog, cli, log>>
    /\ UNCHANGED <<entry, thread2>>

----------------------------------------------------------------------------
Init ==
    /\ mode \in {"lib", "cli"}
    /\ pc = IF mode = "lib" THEN "new" ELSE "main"
    /\ json_err_is_request_exception \in BOOLEAN
    /\ clock = StartClock
    /\ self = None
    /\ probe = None
    /\ health = None
    /\ call = None
    /\ payload = None
    /\ attempt = 0
    /\ posts = <<>>
    /\ attempts = <<>>
    /\ sleeps = <<>>
    /\ result = NoResult
    /\ n_calls = 0
    /\ convLog = <<>>
    /\ cli = None
    /\ stdout = <<>>
    /\ log = <<>>
    /\ entry = None
    /\ pc2 = "none"
    /\ call2 = None
    /\ payload2 = None
    /\ attempt2 = 0
    /\ posts2 = <<>>
    /\ attempts2 = <<>>
    /\ sleeps2 = <<>>
    /\ result2 = NoResult

Next ==
    \/ Construct
    \/ CheckConnection
    \/ ExecuteTool
    \/ Post
    \/ Sleep
    \/ Return
    \/ Tick
    \/ MainConstruct
    \/ MainParse
    \/ MainPrint

Spec == Init /\ [][Next]_vars

\* Every POST is given timeout=self.timeout (line 115), so it returns or
\* raises, and time.sleep(self.retry_delay) ends: a call that is at a POST or
\* in a wait takes its next step.
SpecLive == Spec /\ WF_vars(Post) /\ WF_vars(Sleep)

-----------------------------------------------------------------------------
\* The convenience methods (lines 138-216).  Each one is a single
\* `return self.execute_tool(...)`: its step enters execute_tool, whose loop
\* is then run by Post, Sleep and Return.

Commands == {"echo hi"}
Codes    == {"print(1)"}
Paths    == {"a.py"}
Drafts   == {"x = 1"}

\* instance_id and conversation_id as a caller of a convenience method gives
\* them: both left out, both given, both given empty
IdArgs == { <<None, None>>,
            <<Some("django.14520"), Some(<<"c", "7">>)>>,
            <<Some(""), Some(<<>>)>> }

\* start and end as a caller of edit_file gives them; None is an argument
\* left out, for which Python takes the default of the signature
EditRanges == { <<None, None>>, <<Some(3), Some(-1)>>,
                <<Some(-2), Some(0)>>, <<Some(7), None>> }

\* lines 188-189: start: int = 1, end: int = -1
DefaultStart == 1
DefaultEnd   == -1

Default(arg, d) == IF IsNone(arg) THEN d ELSE Val(arg)

\* lines 154-159: what execute_bash hands to execute_tool
BashCall(command) ==
    [tool |-> "execute_bash", parameters |-> [command |-> command]]

PythonCall_MethodName(code) ==
    [tool |-> "execute_python", parameters |-> [code |-> code]]

\* lines 177-182: what execute_python hands to execute_tool
PythonCall(code) ==
    [tool |-> "execute_ipython_cell", parameters |-> [code |-> code]]

EditCall_EndClamped(path, new_content_draft, start, end) ==
    [tool |-> "edit_file",
     parameters |-> [path |-> path, new_content_draft |-> new_content_draft,
                     start |-> start, end |-> IF end < 0 THEN 0 ELSE end]]

\* lines 206-216: what edit_file hands to execute_tool
EditCall(path, new_content_draft, start, end) ==
    [tool |-> "edit_file",
     parameters |-> [path |-> path, new_content_draft |-> new_content_draft,
                     start |-> start, end |-> end]]

\* the guard and the frame shared by the three methods
Delegate(c, instance_id, conversation_id) ==
    /\ mode = "lib" /\ pc = "idle"
    /\ n_calls < MaxCalls /\ clock <= MaxClock
    /\ EnterExecuteTool(c.tool, c.parameters, instance_id, conversation_id)
    /\ UNCHANGED <<mode, json_err_is_request_exception, clock, self, probe, cli,
                   stdout, log>>
    /\ UNCHANGED thread2

ExecuteBash ==
    \E command \in Commands, ids \in IdArgs :
        /\ entry' = Some([op |-> "execute_bash", command |-> command,
                          instance_id |-> ids[1], conversation_id |-> ids[2]])
        /\ Delegate(BashCall(command), ids[1], ids[2])

ExecutePython ==
    \E code \in Codes, ids \in IdArgs :
        /\ entry' = Some([op |-> "execute_python", code |-> code,
                          instance_id |-> ids[1], conversation_id |-> ids[2]])
        /\ Delegate(PythonCall(code), ids[1], ids[2])

EditFile ==
    \E path \in Paths, new_content_draft \in Drafts, range \in EditRanges,
       ids \in IdArgs :
        /\ entry' = Some([op |-> "edit_file", path |-> path,
                          new_content_draft |-> new_content_draft,
                          start |-> range[1], end |-> range[2],
                          instance_id |-> ids[1], conversation_id |-> ids[2]])
        /\ Delegate(EditCall(path, new_content_draft,
                             Default(range[1], DefaultStart),
                             Default(range[2], DefaultEnd)), ids[1], ids[2])

\* a program that uses the client as a library through its convenience methods
InitApi == Init /\ mode = "lib"

NextApi ==
    \/ Construct
    \/ CheckConnection
    \/ ExecuteBash
    \/ ExecutePython
    \/ EditFile
    \/ Post
    \/ Sleep
    \/ Return

SpecApi == InitApi /\ [][NextApi]_vars

-----------------------------------------------------------------------------
\* Two threads that each call execute_tool once on one client.  The first
\* thread runs in pc, call, payload, ...; the second has its own frame, so its
\* own locals, in pc2, call2, payload2, ...; self is the one client of both.

TwoRetries == 2      \* max_retries of the client the two threads share

Finish2(r) ==
    /\ result2' = r
    /\ pc2' = "done"

LoopTop2(i) ==
    /\ attempt2' = i
    /\ IF InRange(i, Val(self).max_retries)
       THEN /\ pc2' = "post"
            /\ result2' = NoResult
       ELSE Finish2(Returned(None))

AttemptFailed2(detail) ==
    IF HasAttemptLeft(attempt2, Val(self).max_retries)
    THEN /\ pc2' = "sleep"
         /\ result2' = NoResult
    ELSE Finish2(Raised("Exception", FailureMessage(Val(self).max_retries, detail)))

RaisedInTry2(cls, msg) ==
    IF IsRequestException(cls)
    THEN AttemptFailed2(msg)
    ELSE Finish2(Raised(cls, <<msg>>))

\* Mutant of Payload2: the payload is kept on the client, where the payload of
\* the other thread's call replaces it
Payload2_OnInstance == IF IsNone(payload) THEN Val(payload2) ELSE Val(payload)

\* line 114, json=payload: the local variable of the second thread's frame
Payload2 == Val(payload2)

\* the first thread calls execute_tool
ThreadOneCall ==
    /\ pc = "idle"
    /\ \E tool \in Tools, parameters \in Parameters, ids \in IdArgs :
          EnterExecuteTool(tool, parameters, ids[1], ids[2])
    /\ UNCHANGED <<mode, json_err_is_request_exception, clock, self, probe, cli,
                   stdout, log, entry>>
    /\ UNCHANGED thread2

\* the second thread calls execute_tool
ThreadTwoCall ==
    /\ pc2 = "idle"
    /\ \E tool \in Tools, parameters \in Parameters, ids \in IdArgs :
          LET p == BuildPayload(tool, parameters, ids[1], ids[2], clock)
          IN  /\ call2' = Some([tool |-> tool, parameters |-> parameters,
                                instance_id |-> ids[1],
                                conversation_id |-> ids[2], at |-> clock])
              /\ payload2' = Some(p)
              /\ convLog' = IF IsNone(ids[2])
                            THEN Append(convLog, [at |-> clock, id |-> p.conversation_id])
                            ELSE convLog
    /\ n_calls' = n_calls + 1
    /\ posts2' = <<>>
    /\ attempts2' = <<>>
    /\ sleeps2' = <<>>
    /\ LoopTop2(0)
    /\ UNCHANGED <<mode, pc, json_err_is_request_exception, clock, self, probe,
                   health, call, payload, attempt, posts, attempts, sleeps, result,
                   cli, stdout, log, entry>>

Post2 ==
    /\ pc2 = "post"
    /\ \E outcome \in PostOutcomes :
          /\ posts2' = Append(posts2, ExecuteRequest(Val(self), Payload2))
          /\ attempts2' = Append(attempts2, outcome)
          /\ IF outcome.kind = "error"
             THEN RaisedInTry2(NetErrorClass(outcome.text), outcome.text)
             ELSE IF IsSuccess(outcome)
             THEN IF IsNone(JsonDecode(outcome.text))
                  THEN RaisedInTry2(JsonErrorClass, "Expecting value")
                  ELSE Finish2(Returned(JsonDecode(outcome.text)))
             ELSE AttemptFailed2(outcome.text)
    /\ UNCHANGED <<mode, pc, json_err_is_request_exception, clock, self, probe,
                   health, call, payload, attempt, posts, attempts, sleeps, result,
                   n_calls, convLog, cli, stdout, log, entry>>
    /\ UNCHANGED <<call2, payload2, attempt2, sleeps2>>

Sleep2 ==
    /\ pc2 = "sleep"
    /\ sleeps2' = Append(sleeps2, Val(self).retry_delay)
    /\ clock' = clock + Val(self).retry_delay * TicksPerSec
    /\ LoopTop2(attempt2 + 1)
    /\ UNCHANGED <<mode, pc, json_err_is_request_exception, self, probe, health,
                   call, payload, attempt, posts, attempts, sleeps, result, n_calls,
                   convLog, cli, stdout, log, entry>>
    /\ UNCHANGED <<call2, payload2, posts2, attempts2>>

\* the client has been constructed and both threads are about to call
InitTwo ==
    LET c == NewClient(<<"h", "/">>, "k", DefaultTimeout, TwoRetries, DefaultRetryDelay)
    IN  /\ mode = "lib"
        /\ pc = "idle"
        /\ json_err_is_request_exception \in BOOLEAN
        /\ clock = StartClock
        /\ self = Some(c)
        /\ probe = Some(RunCheckConnection(c, Response(HTTP_OK, "ok")))
        /\ health = None
        /\ call = None
        /\ payload = None
        /\ attempt = 0
        /\ posts = <<>>
        /\ attempts = <<>>
        /\ sleeps = <<>>
        /\ result = NoResult
        /\ n_calls = 0
        /\ convLog = <<>>
        /\ cli = None
        /\ stdout = <<>>
        /\ log = <<>>
        /\ entry = None
        /\ pc2 = "idle"
        /\ call2 = None
        /\ payload2 = None
        /\ attempt2 = 0
        /\ posts2 = <<>>
        /\ attempts2 = <<>>
        /\ sleeps2 = <<>>
        /\ result2 = NoResult

NextTwo ==
    \/ ThreadOneCall
    \/ Post
    \/ Sleep
    \/ ThreadTwoCall
    \/ Post2
    \/ Sleep2

SpecTwo == InitTwo /\ [][NextTwo]_vars

----------------------------------------------------------------------------
\* Vocabulary of the properties

Cfg == Val(self)
InCall == pc \in {"post", "sleep", "done"}
Is200(o) == o.kind = "response" /\ o.status = 200
IsNon200(o) == o.kind = "response" /\ o.status # 200
IsNetworkFailure(o) == o.kind = "error"
BodyIsJson(o) == ~IsNone(JsonDecode(o.text))
LastAttempt == attempts[Len(attempts)]

\* attempt k is the first one answered with status 200
FirstOk(k) ==
    /\ k \in 1 .. Len(attempts)
    /\ Is200(attempts[k])
    /\ \A j \in 1 .. (k - 1) : ~Is200(attempts[j])

\* the call made exactly k POSTs and returned the parsed body of the k-th answer
ReturnedBodyOf(k) ==
    /\ pc = "done"
    /\ Len(posts) = k
    /\ Len(attempts) = k
    /\ result.kind = "returned"
    /\ ~IsNone(result.value)
    /\ result.value = JsonDecode(attempts[k].text)

\* the call failed with the tool-execution failure carrying this detail
FailedWith(detail) ==
    /\ result.kind = "raised"
    /\ Val(result.error).class = "Exception"
    /\ LET msg == Val(result.error).msg
       IN  /\ msg[1] = "Failed to execute tool after "
           /\ msg[Len(msg)] = detail

----------------------------------------------------------------------------
----------------------------------------------------------------------------
\* C2: when every attempt of a call was answered with a non-200 status, the
\* call ends after exactly max_retries POSTs, having slept retry_delay once
\* before each POST but the first, and fails with the tool-execution failure
\* carrying the body of the last response.
C2_AllNon200 ==
    (InCall /\ attempts # <<>> /\ \A i \in 1 .. Len(attempts) : IsNon200(attempts[i]))
        => /\ \A i \in 1 .. Len(sleeps) : sleeps[i] = Cfg.retry_delay
           /\ pc = "post" => Len(sleeps) = Len(posts)
           /\ pc = "sleep" => Len(sleeps) = Len(posts) - 1
           /\ pc = "done" =>
                /\ Len(posts) = Cfg.max_retries
                /\ Len(sleeps) = Cfg.max_retries - 1
                /\ FailedWith(LastAttempt.text)

\* three non-200 responses in a row, with different bodies, end the call
C2_Witness ==
    /\ pc = "done"
    /\ Len(attempts) = 3
    /\ \A i \in 1 .. 3 : IsNon200(attempts[i])
    /\ attempts[1].text # attempts[3].text
    /\ Len(sleeps) = 2
    /\ result.kind = "raised"

----------------------------------------------------------------------------
\* C3: when all max_retries attempts failed, each with a non-200 response or a
\* network-level failure, the error raised carries the detail of the last
\* attempt (response body or exception message), whatever the earlier ones were.
C3_LastDetailOnly ==
    (/\ pc = "done"
     /\ attempts # <<>>
     /\ Len(attempts) = Cfg.max_retries
     /\ \A i \in 1 .. Len(attempts) : IsNon200(attempts[i]) \/ IsNetworkFailure(attempts[i]))
        => FailedWith(LastAttempt.text)

\* a non-200 response followed by a network failure on the last attempt
C3_Witness ==
    /\ pc = "done"
    /\ Len(attempts) >= 2
    /\ Len(attempts) = Cfg.max_retries
    /\ IsNon200(attempts[1])
    /\ IsNetworkFailure(LastAttempt)
    /\ attempts[1].text # LastAttempt.text
    /\ FailedWith(LastAttempt.text)

----------------------------------------------------------------------------
\* C4 (as stated): a call that returns normally has received a 200 response
\* and returns its structured body.
C4_ReturnsOnlyAfter200 ==
    (pc = "done" /\ result.kind = "returned")
        => /\ \E k \in 1 .. Len(attempts) : Is200(attempts[k])
           /\ ~IsNone(result.value)

----------------------------------------------------------------------------
\* C5 (as stated): every error that leaves execute_tool is the
\* tool-execution failure raised when the retry budget is exhausted.
C5_OnlyToolExecutionFailure ==
    (pc = "done" /\ result.kind = "raised")
        => /\ Val(result.error).class = "Exception"
           /\ Val(result.error).msg[1] = "Failed to execute tool after "
           /\ Len(attempts) = Cfg.max_retries

----------------------------------------------------------------------------
\* C6 (as stated): the payload has no instance_id key when instance_id is
\* omitted, and has instance_id with the given value when one is provided.
C6_InstanceIdInPayload ==
    InCall =>
        IF IsNone(Val(call).instance_id)
        THEN "instance_id" \notin DOMAIN Val(payload)
        ELSE /\ "instance_id" \in DOMAIN Val(payload)
             /\ Val(payload).instance_id = Val(Val(call).instance_id)

----------------------------------------------------------------------------
\* C7: every check_connection sends one GET, to the health path, does not
\* raise, and returns TRUE exactly when the response status is 200: FALSE on
\* every other status and on every network-level failure.
C7_CheckedAsClaimed(h) ==
    /\ Len(h.requests) = 1
    /\ h.requests[1].method = "GET"
    /\ h.requests[1].url = Cfg.server_url \o <<"/api/health">>
    /\ ~h.raised
    /\ h.ret = Is200(h.outcome)
    /\ (IsNon200(h.outcome) \/ IsNetworkFailure(h.outcome)) => h.ret = FALSE

C7_CheckConnection ==
    /\ ~IsNone(probe) => C7_CheckedAsClaimed(Val(probe))
    /\ ~IsNone(health) => C7_CheckedAsClaimed(Val(health))

\* a check_connection by the caller, after an execute_tool, that met a
\* network failure and returned FALSE
C7_Witness ==
    /\ n_calls = 1
    /\ ~IsNone(health)
    /\ IsNetworkFailure(Val(health).outcome)
    /\ Val(health).ret = FALSE
    /\ pc = "idle"

----------------------------------------------------------------------------
\* C8: construction sends exactly one health GET and succeeds whatever the
\* probe's outcome; and how an execute_tool proceeds and ends is fixed by
\* max_retries and the answers to its own POSTs, not by the probe's result.

\* an attempt after which the loop goes on if an attempt is left
C8_Retried(o) ==
    \/ IsNon200(o)
    \/ IsNetworkFailure(o)
    \/ (Is200(o) /\ ~BodyIsJson(o) /\ json_err_is_request_exception)

\* how a call whose POSTs were answered by outs ends
C8_Outcome(outs, max_retries) ==
    IF outs = <<>> THEN Returned(None)
    ELSE LET last == outs[Len(outs)]
         IN  IF Is200(last) /\ BodyIsJson(last) THEN Returned(JsonDecode(last.text))
             ELSE IF Is200(last) /\ ~json_err_is_request_exception
             THEN Raised("ValueError", <<"Expecting value">>)
             ELSE Raised("Exception",
                         <<"Failed to execute tool after ">> \o IntToStr(max_retries)
                            \o <<" attempts: ",
                                 IF Is200(last) THEN "Expecting value" ELSE last.text>>)

C8_CallFollowsItsAnswers ==
    InCall =>
        /\ Len(posts) = Len(attempts)
        /\ \A i \in 1 .. (Len(attempts) - 1) : C8_Retried(attempts[i])
        /\ pc = "post" => Len(attempts) < Cfg.max_retries
                            /\ \A i \in 1 .. Len(attempts) : C8_Retried(attempts[i])
        /\ pc = "sleep" => Len(attempts) < Cfg.max_retries
                            /\ \A i \in 1 .. Len(attempts) : C8_Retried(attempts[i])
        /\ pc = "done" =>
             /\ result = C8_Outcome(attempts, Cfg.max_retries)
             /\ IF attempts = <<>> THEN Cfg.max_retries <= 0
                ELSE Len(attempts) = Cfg.max_retries \/ ~C8_Retried(LastAttempt)

\* the client exists as soon as the constructor has run, with one GET sent
C8_ConstructionProbesOnce ==
    /\ pc \notin {"new", "main"} =>
         /\ ~IsNone(self) /\ ~IsNone(probe)
         /\ Len(Val(probe).requests) = 1
         /\ ~Val(probe).raised
    /\ pc = "crashed" => (mode = "cli" /\ result.kind = "raised")

C8_ProbeNotEnforced ==
    /\ C8_ConstructionProbesOnce
    /\ C8_CallFollowsItsAnswers

\* a client whose probe failed and whose execute_tool returned a body
C8_Witness ==
    /\ pc = "done"
    /\ Val(probe).ret = FALSE
    /\ result.kind = "returned"
    /\ Len(posts) = 2

----------------------------------------------------------------------------
\* C9 (as stated): when main() aborts on parameters that are not JSON, no
\* request, neither the health GET nor an execute POST, was sent in the run.
C9_AbortBeforeAnyRequest ==
    (mode = "cli" /\ pc = "exit" /\ log # <<>>) =>
        /\ IsNone(probe) \/ Val(probe).requests = <<>>
        /\ IsNone(health)
        /\ n_calls = 0
        /\ posts = <<>>

----------------------------------------------------------------------------
\* C10: a call without conversation_id sends "conv-" followed by the decimal
\* digits of the whole seconds of the time of the call, so that two such calls
\* send the same id exactly when they were made in the same second; a call
\* with a conversation_id sends it unchanged.

\* int(c) of a digit character
C10_DigitValue(c) ==
    CASE c = "0" -> 0 [] c = "1" -> 1 [] c = "2" -> 2 [] c = "3" -> 3 [] c = "4" -> 4
      [] c = "5" -> 5 [] c = "6" -> 6 [] c = "7" -> 7 [] c = "8" -> 8 [] c = "9" -> 9
      [] OTHER -> -1

\* int(s) of a sequence of digit characters; -1 when s is not one
RECURSIVE C10_ParseInt(_)
C10_ParseInt(s) ==
    IF s = <<>> THEN -1
    ELSE IF C10_DigitValue(s[Len(s)]) < 0 THEN -1
    ELSE IF Len(s) = 1 THEN C10_DigitValue(s[1])
    ELSE LET high == C10_ParseInt(SubSeq(s, 1, Len(s) - 1))
         IN  IF high < 0 THEN -1 ELSE 10 * high + C10_DigitValue(s[Len(s)])

\* id is "conv-<n>" with n the whole seconds of time `at`
C10_IsConvOfSecond(id, at) ==
    /\ Len(id) > 5
    /\ SubSeq(id, 1, 5) = <<"c", "o", "n", "v", "-">>
    /\ LET n == C10_ParseInt(SubSeq(id, 6, Len(id)))
       IN  n * TicksPerSec <= at /\ at < (n + 1) * TicksPerSec

C10_SameSecond(t1, t2) ==
    \E n \in 0 .. t1 : /\ n * TicksPerSec <= t1 /\ t1 < (n + 1) * TicksPerSec
                       /\ n * TicksPerSec <= t2 /\ t2 < (n + 1) * TicksPerSec

C10_ConversationId ==
    /\ InCall =>
         IF IsNone(Val(call).conversation_id)
         THEN /\ convLog # <<>>
              /\ Val(payload).conversation_id = convLog[Len(convLog)].id
         ELSE Val(payload).conversation_id = Val(Val(call).conversation_id)
    /\ \A i \in 1 .. Len(convLog) : C10_IsConvOfSecond(convLog[i].id, convLog[i].at)
    /\ \A i, j \in 1 .. Len(convLog) :
         (convLog[i].id = convLog[j].id) = C10_SameSecond(convLog[i].at, convLog[j].at)

\* two calls without conversation_id made in different seconds
C10_Witness ==
    /\ Len(convLog) = 2
    /\ ~C10_SameSecond(convLog[1].at, convLog[2].at)
    /\ convLog[1].id # convLog[2].id
    /\ Len(convLog[1].id) # Len(convLog[2].id)
    /\ InCall

-----------------------------------------------------------------------------
\* C11: execute_bash and execute_python are pure delegates: the call they
\* run is execute_tool called with tool "execute_bash" and parameters
\* {command}, respectively tool "execute_ipython_cell" and parameters {code},
\* with instance_id and conversation_id as the caller gave them; its requests
\* are those of that execute_tool call and so is its result or failure.

\* the running call is execute_tool(tool, parameters, instance_id,
\* conversation_id): its arguments, its payload, its requests and its end
C11_RunsExecuteTool(tool, parameters, instance_id, conversation_id) ==
    LET at == Val(call).at
        p  == BuildPayload(tool, parameters, instance_id, conversation_id, at)
    IN  /\ Val(call) = [tool |-> tool, parameters |-> parameters,
                        instance_id |-> instance_id,
                        conversation_id |-> conversation_id, at |-> at]
        /\ Val(payload) = p
        /\ \A i \in 1 .. Len(posts) : posts[i] = ExecuteRequest(Cfg, p)
        /\ Len(posts) = Len(attempts)
        /\ pc = "done" => result = C8_Outcome(attempts, Cfg.max_retries)

C11_PureDelegates ==
    (InCall /\ ~IsNone(entry)) =>
        LET e == Val(entry)
        IN  /\ e.op = "execute_bash" =>
                  C11_RunsExecuteTool("execute_bash", [command |-> e.command],
                                      e.instance_id, e.conversation_id)
            /\ e.op = "execute_python" =>
                  C11_RunsExecuteTool("execute_ipython_cell", [code |-> e.code],
                                      e.instance_id, e.conversation_id)

\* execute_python given both ids, answered on its second POST
C11_Witness ==
    /\ pc = "done"
    /\ ~IsNone(entry)
    /\ Val(entry).op = "execute_python"
    /\ ~IsNone(Val(entry).conversation_id)
    /\ Len(posts) = 2
    /\ posts[2].json.tool = "execute_ipython_cell"
    /\ result.kind = "returned"

-----------------------------------------------------------------------------
\* C12: edit_file sends tool "edit_file" with parameters path,
\* new_content_draft, start and end holding the values it was given, whatever
\* integers start and end are: an end of -1 is sent as -1, and a start or end
\* left out is sent as 1, respectively -1.

C12_EditFileVerbatim ==
    (InCall /\ ~IsNone(entry) /\ Val(entry).op = "edit_file") =>
        LET e == Val(entry)
            parameters ==
                [path |-> e.path, new_content_draft |-> e.new_content_draft,
                 start |-> IF IsNone(e.start) THEN 1 ELSE Val(e.start),
                 end   |-> IF IsNone(e.end) THEN -1 ELSE Val(e.end)]
        IN  /\ Val(payload).tool = "edit_file"
            /\ Val(payload).parameters = parameters
            /\ \A i \in 1 .. Len(posts) :
                  /\ posts[i].json.tool = "edit_file"
                  /\ posts[i].json.parameters = parameters

\* edit_file without start and end, after its first POST
C12_Witness ==
    /\ InCall
    /\ ~IsNone(entry)
    /\ Val(entry).op = "edit_file"
    /\ IsNone(Val(entry).start) /\ IsNone(Val(entry).end)
    /\ Len(posts) >= 1
    /\ posts[1].json.parameters.start = 1
    /\ posts[1].json.parameters.end = -1

-----------------------------------------------------------------------------
\* C13 (as stated): in every execution of execute_tool the fixed retry delay
\* is waited once after each failed attempt that is not the last one and at
\* no other point (not before the first POST, not after a 200 response, not
\* after the final failing attempt), so that the number of waits is the
\* number of POSTs minus one.

\* the waits made so far are one after each attempt but the latest
C13_OneWaitPerEarlierAttempt ==
    /\ \A i \in 1 .. Len(sleeps) : sleeps[i] = Cfg.retry_delay
    /\ pc = "post" => Len(sleeps) = Len(posts)
    /\ pc = "sleep" => /\ Len(sleeps) = Len(posts) - 1
                       /\ ~(Is200(LastAttempt) /\ BodyIsJson(LastAttempt))
                       /\ Len(posts) < Cfg.max_retries

C13_WaitsArePostsMinusOne ==
    InCall =>
        /\ C13_OneWaitPerEarlierAttempt
        /\ pc = "done" => Len(sleeps) = Len(posts) - 1

-----------------------------------------------------------------------------
\* C14: every status other than 200 is treated alike: the number of POSTs,
\* the number of waits and the kind of outcome of a call are fixed by the
\* configuration and by its answers with the status codes other than 200
\* erased, so two runs that differ only in those codes agree on all three.

\* the answer with a status code other than 200 erased
C14_Erased(o) ==
    IF IsNon200(o) THEN [kind |-> "response", status |-> 0, text |-> o.text] ELSE o

C14_Seen == [i \in 1 .. Len(attempts) |-> C14_Erased(attempts[i])]

\* returned, or raised with the class of the exception
C14_OutcomeKind(r) ==
    IF r.kind = "raised" THEN <<"raised", Val(r.error).class>> ELSE <<r.kind>>

C14_StatusBlind ==
    InCall =>
        LET n == Len(C14_Seen)
        IN  /\ Len(posts) = n
            /\ Len(sleeps) = IF pc = "post" \/ n = 0 THEN n ELSE n - 1
            /\ (n > 0 /\ pc # "post") =>
                  (pc = "sleep") = (C8_Retried(C14_Seen[n]) /\ n < Cfg.max_retries)
            /\ (n = 0 /\ pc # "post") => pc = "done"
            /\ pc = "done" =>
                  C14_OutcomeKind(result)
                      = C14_OutcomeKind(C8_Outcome(C14_Seen, Cfg.max_retries))

\* a 404 and a 500 were each followed by one wait and another POST
C14_Witness ==
    /\ pc = "done"
    /\ Len(attempts) = 3
    /\ IsNon200(attempts[1]) /\ attempts[1].status \in 400 .. 499
    /\ IsNon200(attempts[2]) /\ attempts[2].status \in 500 .. 599
    /\ Len(posts) = 3
    /\ Len(sleeps) = 2

-----------------------------------------------------------------------------
\* C15: within one call of execute_tool every attempt sends the same payload
\* to the same URL with the same headers; the conversation id, also a
\* generated one, is that of the time of the call and is not generated again
\* for a retry, even when the clock has reached a later second by then.

C15_SameRequestEveryAttempt ==
    InCall =>
        \A i \in 1 .. Len(posts) :
            /\ posts[i] = posts[1]
            /\ posts[i].url = Cfg.server_url \o <<"/api/v1/execute">>
            /\ posts[i].headers = Cfg.headers
            /\ posts[i].json = Val(payload)
            /\ IF IsNone(Val(call).conversation_id)
               THEN C10_IsConvOfSecond(posts[i].json.conversation_id, Val(call).at)
               ELSE posts[i].json.conversation_id = Val(Val(call).conversation_id)

\* a retry sent in a later second than the call began, with the generated id
\* of the first attempt
C15_Witness ==
    /\ InCall
    /\ IsNone(Val(call).conversation_id)
    /\ Len(posts) >= 2
    /\ Len(sleeps) >= 1
    /\ ~C10_SameSecond(Val(call).at, clock)
    /\ ~C10_IsConvOfSecond(posts[2].json.conversation_id, clock)
    /\ posts[2].json.conversation_id = posts[1].json.conversation_id

-----------------------------------------------------------------------------
\* C16 (as stated): given that each POST returns or fails, every call of
\* execute_tool comes to an end, and in no execution does it issue more than
\* max_retries POSTs.

C16_Running == pc \in {"post", "sleep"}

C16_Ends == C16_Running ~> (pc = "done")

C16_AtMostMaxRetriesPosts == InCall => Len(posts) <= Cfg.max_retries

C16_EndsWithinMaxRetries == C16_Ends /\ []C16_AtMostMaxRetriesPosts

-----------------------------------------------------------------------------
\* C17: two calls of execute_tool that run concurrently on one client are
\* independent: under every interleaving of their attempts and waits, the
\* payload, the number of POSTs and the outcome of each call are those of the
\* call run alone with its own arguments and the answers to its own POSTs.

\* a call with arguments c, payload p, requests ps answered by as, waits sl,
\* at position at_pc with result res is a state of that call run alone
C17_AsIfAlone(c, p, ps, as, sl, at_pc, res) ==
    LET n == Len(as)
    IN  /\ p = BuildPayload(c.tool, c.parameters, c.instance_id,
                            c.conversation_id, c.at)
        /\ Len(ps) = n
        /\ \A i \in 1 .. n :
              ps[i] = [method |-> "POST",
                       url |-> Cfg.server_url \o <<"/api/v1/execute">>,
                       headers |-> Cfg.headers, json |-> p, timeout |-> Cfg.timeout]
        /\ \A i \in 1 .. (n - 1) : C8_Retried(as[i])
        /\ Len(sl) = IF at_pc = "post" \/ n = 0 THEN n ELSE n - 1
        /\ at_pc = "post" => n < Cfg.max_retries /\ (n > 0 => C8_Retried(as[n]))
        /\ at_pc = "sleep" => n < Cfg.max_retries /\ n > 0 /\ C8_Retried(as[n])
        /\ at_pc = "done" =>
              /\ res = C8_Outcome(as, Cfg.max_retries)
              /\ IF n = 0 THEN Cfg.max_retries <= 0
                 ELSE n = Cfg.max_retries \/ ~C8_Retried(as[n])

C17_Independent ==
    /\ pc \in {"post", "sleep", "done"} =>
          C17_AsIfAlone(Val(call), Val(payload), posts, attempts, sleeps, pc, result)
    /\ pc2 \in {"post", "sleep", "done"} =>
          C17_AsIfAlone(Val(call2), Val(payload2), posts2, attempts2, sleeps2,
                        pc2, result2)

\* both calls have ended after two POSTs each, begun with different
\* arguments while the other was running, one answered and one failed
C17_Witness ==
    /\ pc = "done" /\ pc2 = "done"
    /\ Len(posts) = 2 /\ Len(posts2) = 2
    /\ Val(call).at # Val(call2).at
    /\ Val(call).instance_id # Val(call2).instance_id
    /\ posts[2].json # posts2[2].json
    /\ result.kind = "returned"
    /\ result2.kind = "raised"

-----------------------------------------------------------------------------
\* C18: the configuration of a client does not change after construction:
\* no step of check_connection, execute_tool, execute_bash, execute_python or
\* edit_file, whether the call succeeds, retries or fails, changes
\* server_url, api_key, headers, timeout, max_retries or retry_delay.

C18_SameConfiguration ==
    ~IsNone(self) =>
        /\ ~IsNone(self')
        /\ Val(self').server_url = Val(self).server_url
        /\ Val(self').api_key = Val(self).api_key
        /\ Val(self').headers = Val(self).headers
        /\ Val(self').timeout = Val(self).timeout
        /\ Val(self').max_retries = Val(self).max_retries
        /\ Val(self').retry_delay = Val(self).retry_delay

C18_ConfigurationImmutable == [][C18_SameConfiguration]_vars

\* a client that has made one call, then failed an edit_file call after a
\* retry
C18_Witness ==
    /\ ~IsNone(self)
    /\ pc = "done"
    /\ ~IsNone(entry) /\ Val(entry).op = "edit_file"
    /\ n_calls = 2
    /\ Len(sleeps) >= 1
    /\ result.kind = "raised"
    /\ Cfg.headers = Headers(Cfg.api_key)

====
